---- MODULE Spec2Model ----
(***************************************************************************)
(* Model of 00_project_setup.py: create_project_structure(base_path).      *)
(*                                                                         *)
(* The state is the part of the filesystem under the base path that the    *)
(* function reads or writes, plus a few neighbouring entries it must not   *)
(* touch.  Every filesystem call of the function is one step of a process, *)
(* so that two invocations can be interleaved call by call.                *)
(***************************************************************************)
EXTENDS Naturals, Sequences, FiniteSets, TLC

(* ---------------------------------------------------------------- bounds *)

\* Number of entries that may exist under the base path before the first
\* call (their ancestors exist as directories).
MaxPre == 2

\* Number of successive invocations of one process.
MaxCalls == 2

(* ------------------------------------------------------- filesystem model *)

\* What a path can hold: nothing, a directory, or a regular file with one
\* of four contents (zero bytes, some other text, the stub text written at
\* lines 78-89, the README text of lines 93-167).
Absent == "absent"
Dir == "dir"
Empty == "empty"
Custom == "custom"
InitStubText == "stub"
readme_content == "readme"

FileContents == {Empty, Custom, InitStubText, readme_content}

IsFile(v) == v \in FileContents

\* The base path itself: a directory that exists and is writable.
base == "."

\* Mutant: the intermediate directories listed as well, so that each gets a
\* marker of its own.
directoriesWithParents ==
    << "data", "data/raw", "data/processed", "notebooks",
       "results", "results/figures", "results/tables", "src" >>

\* The fixed ordered list of directories (lines 47-54).
directories ==
    << "data/raw", "data/processed", "notebooks",
       "results/figures", "results/tables", "src" >>

NDirs == Len(directories)

DirSet == {directories[i] : i \in 1..NDirs}

\* Path.parent of each directory of the list, and of the two intermediate
\* directories that mkdir(parents=True) may have to create.
Parent(d) ==
    CASE d \in {"data/raw", "data/processed"} -> "data"
      [] d \in {"results/figures", "results/tables"} -> "results"
      [] OTHER -> base

\* dir_path / ".gitkeep" (line 69).
gitkeep_path(d) == d \o "/.gitkeep"

\* base / "src" / "__init__.py" (line 76).
init_file == "src/__init__.py"

\* base / "README.md" (line 92).
readme_path == "README.md"

DirNodes == DirSet \cup {"data", "results"}

GitkeepNodes == {gitkeep_path(d) : d \in DirSet}

\* Paths under the base path the function has no business with.
OtherNodes == {"data/.gitkeep", "results/.gitkeep", "notes.txt"}

Nodes == DirNodes \cup GitkeepNodes \cup {init_file, readme_path} \cup OtherNodes

\* The directory an entry lives in.
Container(n) ==
    IF n \in DirNodes THEN Parent(n)
    ELSE IF n \in GitkeepNodes THEN CHOOSE d \in DirSet : gitkeep_path(d) = n
    ELSE IF n = init_file THEN "src"
    ELSE IF n = "data/.gitkeep" THEN "data"
    ELSE IF n = "results/.gitkeep" THEN "results"
    ELSE base

IsDirAt(f, n) == n = base \/ f[n] = Dir

\* A filesystem: an entry exists only inside an existing directory.
Consistent(f) == \A n \in Nodes : f[n] # Absent => IsDirAt(f, Container(n))

EmptyTree == [n \in Nodes |-> Absent]

(* ------------------------------------------------------ filesystem calls *)

\* os.mkdir(n): one system call.  ENOENT when the parent is missing,
\* ENOTDIR when the parent is a file, EEXIST when the path is taken.
OsMkdir(f, n) ==
    IF ~IsDirAt(f, Parent(n))
    THEN [res |-> IF f[Parent(n)] = Absent THEN "ENOENT" ELSE "ENOTDIR", fs |-> f]
    ELSE IF f[n] # Absent
    THEN [res |-> "EEXIST", fs |-> f]
    ELSE [res |-> "ok", fs |-> [f EXCEPT ![n] = Dir]]

\* Mutant: exist_ok=False, every failed os.mkdir is raised.
ExistOkFalse(f, n) == FALSE

\* Mutant: exist_ok swallows the error whatever holds the path.
ExistOkSwallowsAny(f, n) == f[n] # Absent

\* The except OSError branch of Path.mkdir with exist_ok=True (line 66):
\* the error is swallowed exactly when the path is a directory.
ExistOkSwallows(f, n) == f[n] = Dir

\* Path.exists(): a stat that succeeds, on a file or on a directory.
PathExists(f, n) == IsDirAt(f, Container(n)) /\ f[n] # Absent

\* Mutant: the marker is written with a placeholder text.
TouchWritesText(f, n) == [f EXCEPT ![n] = Custom]

\* Mutant: the touch is lost.
TouchNothing(f, n) == f

\* Path.touch() (line 71): utime on an existing entry, else
\* open(O_CREAT | O_WRONLY) without O_TRUNC: an existing entry keeps its
\* content, a missing one becomes a zero-length file.
Touch(f, n) == IF f[n] = Absent THEN [f EXCEPT ![n] = Empty] ELSE f

\* Mutant: exclusive creation (mode "x"), failing on anything that exists.
OpenWExclusive(f, n) == f[n] # Absent

\* Mutant: the file is opened without truncation (mode "r+" or "a").
OpenWKeeps(f, n) == IF f[n] = Absent THEN [f EXCEPT ![n] = Empty] ELSE f

\* open(n, "w") of Path.write_text: fails on a directory, else creates or
\* truncates.
OpenWFails(f, n) == f[n] = Dir

OpenW(f, n) == [f EXCEPT ![n] = Empty]

\* write() + close() of Path.write_text: the text goes to offset 0 of the
\* file as it is then; over any other, unrelated content the result is a
\* mixture of the two.
WriteAll(f, n, text) ==
    [f EXCEPT ![n] = IF @ \in {Empty, text} THEN text ELSE Custom]

\* Mutant: a handler that restores the filesystem of the start.
OnErrorRollback(f, start) == start

\* What an exception leaves behind when it propagates out of the function
\* (no try/except, no cleanup anywhere in lines 31-178): the filesystem f
\* as it is, whatever it was at the start of the invocation.
OnError(f, start) == f

\* Mutant: the stub is written whether or not it exists.
InitAlwaysMissing(f) == TRUE

\* Mutant: the stub is never written.
InitNeverMissing(f) == FALSE

\* if not init_file.exists() (line 77).
InitMissing(f) == ~PathExists(f, init_file)

(* ------------------------------------------- the function, run to its end *)

\* dir_path.mkdir(parents=True, exist_ok=True) (line 66), all its system
\* calls in a row: os.mkdir; on ENOENT the parent, then os.mkdir again
\* with parents=False.
PathMkdir(f, d) ==
    LET r1 == OsMkdir(f, d) IN
    IF r1.res = "ok" THEN [ok |-> TRUE, fs |-> r1.fs]
    ELSE IF r1.res = "ENOENT" THEN
        LET rp == OsMkdir(f, Parent(d)) IN
        IF rp.res # "ok" /\ ~ExistOkSwallows(rp.fs, Parent(d))
        THEN [ok |-> FALSE, fs |-> rp.fs]
        ELSE LET r2 == OsMkdir(rp.fs, d) IN
             [ok |-> r2.res = "ok" \/ (r2.res # "ENOENT" /\ ExistOkSwallows(r2.fs, d)),
              fs |-> r2.fs]
    ELSE [ok |-> ExistOkSwallows(f, d), fs |-> f]

\* Lines 69-71 for one directory.
EnsureGitkeep(f, d) ==
    IF PathExists(f, gitkeep_path(d)) THEN f ELSE Touch(f, gitkeep_path(d))

\* Lines 76-169, after the loop.
StubAndReadme(f, start) ==
    LET g == IF ~InitMissing(f) THEN f
             ELSE WriteAll(OpenW(f, init_file), init_file, InitStubText) IN
    IF InitMissing(f) /\ OpenWFails(f, init_file)
    THEN [outcome |-> "error", fs |-> OnError(f, start)]
    ELSE IF OpenWFails(g, readme_path)
    THEN [outcome |-> "error", fs |-> OnError(g, start)]
    ELSE [outcome |-> "done",
          fs |-> WriteAll(OpenW(g, readme_path), readme_path, readme_content)]

\* The loop of lines 64-73 from position i on, then the rest.
RECURSIVE RunFrom(_, _, _)
RunFrom(f, i, start) ==
    IF i > NDirs THEN StubAndReadme(f, start)
    ELSE LET r == PathMkdir(f, directories[i]) IN
         IF ~r.ok THEN [outcome |-> "error", fs |-> OnError(r.fs, start)]
         ELSE RunFrom(EnsureGitkeep(r.fs, directories[i]), i + 1, start)

\* One undisturbed invocation of create_project_structure on filesystem f.
Single(f) == RunFrom(f, 1, f)

(* ----------------------------------------------------------------- state *)

VARIABLES
    fs,          \* the filesystem under the base path
    pc,          \* per process: the call it is about to make
    idx,         \* per process: position in the directories list
    calls,       \* number of invocations started by process 1
    pre,         \* the filesystem when the current invocation(s) started
    prev,        \* the filesystem when the previous invocation ended
    prevOutcome  \* how the previous invocation ended ("none" before)

vars == <<fs, pc, idx, calls, pre, prev, prevOutcome>>

ProcSet == {1, 2}

Terminated(p) == pc[p] \in {"done", "error"}

(* --------------------------------------------------------- initial states *)

\* What may sit at each path before the first call.
SeedKinds(n) ==
    IF n \in DirNodes THEN {Dir, Custom}
    ELSE IF n \in GitkeepNodes THEN {Dir, Empty, Custom}
    ELSE IF n = init_file THEN {Dir, Empty, Custom, InitStubText}
    ELSE IF n = readme_path THEN {Dir, Empty, Custom, readme_content}
    ELSE {Custom}

Seeds == {s \in Nodes \X (FileContents \cup {Dir}) : s[2] \in SeedKinds(s[1])}

NoSeed == <<"-", Absent>>

Ancestors(n) == {Container(n), Container(Container(n))} \ {base}

\* The tree holding the chosen entries and the directories above them.
Populate(ch) ==
    [n \in Nodes |->
        IF \E i \in DOMAIN ch : ch[i][1] = n
        THEN ch[CHOOSE i \in DOMAIN ch : ch[i][1] = n][2]
        ELSE IF \E i \in DOMAIN ch : ch[i] # NoSeed /\ n \in Ancestors(ch[i][1])
        THEN Dir
        ELSE Absent]

\* The filesystems with at most k entries put there beforehand.
PreStates(k) ==
    {f \in {Populate(ch) : ch \in [1..k -> Seeds \cup {NoSeed}]} : Consistent(f)}

InitCommon ==
    /\ idx = [p \in ProcSet |-> 1]
    /\ calls = 1
    /\ pre = fs
    /\ prev = fs
    /\ prevOutcome = "none"

\* One process, about to run the function (line 183).
Init ==
    /\ fs \in PreStates(MaxPre)
    /\ pc = [p \in ProcSet |-> IF p = 1 THEN "mkdir" ELSE "idle"]
    /\ InitCommon

\* Two processes, both about to run the function on the same base path.
InitConc ==
    /\ fs \in PreStates(MaxPre)
    /\ pc = [p \in ProcSet |-> "mkdir"]
    /\ InitCommon

(* ---------------------------------------------------------------- actions *)

Frame == UNCHANGED <<calls, pre, prev, prevOutcome>>

Goto(p, label) == pc' = [pc EXCEPT ![p] = label]

\* An exception propagates: the invocation ends, idx stays where it failed.
Raise(p) ==
    /\ fs' = OnError(fs, pre)
    /\ Goto(p, "error")
    /\ UNCHANGED idx

\* End of one loop iteration (line 73): next directory, or leave the loop.
NextDirectory(p) ==
    /\ idx' = [idx EXCEPT ![p] = @ + 1]
    /\ Goto(p, IF idx[p] + 1 > NDirs THEN "initexists" ELSE "mkdir")

\* Line 66, first os.mkdir(dir_path).
Mkdir(p) ==
    /\ pc[p] = "mkdir"
    /\ LET d == directories[idx[p]]
           r == OsMkdir(fs, d) IN
       IF r.res = "ok" THEN fs' = r.fs /\ Goto(p, "exists") /\ UNCHANGED idx
       ELSE IF r.res = "ENOENT"
       THEN UNCHANGED <<fs, idx>> /\ Goto(p, "mkparent")
       ELSE IF ExistOkSwallows(fs, d)
       THEN UNCHANGED <<fs, idx>> /\ Goto(p, "exists")
       ELSE Raise(p)
    /\ Frame

\* Line 66, self.parent.mkdir(parents=True, exist_ok=True) after ENOENT.
MkParent(p) ==
    /\ pc[p] = "mkparent"
    /\ LET d == Parent(directories[idx[p]])
           r == OsMkdir(fs, d) IN
       IF r.res = "ok" THEN fs' = r.fs /\ Goto(p, "mkretry") /\ UNCHANGED idx
       ELSE IF ExistOkSwallows(fs, d)
       THEN UNCHANGED <<fs, idx>> /\ Goto(p, "mkretry")
       ELSE Raise(p)
    /\ Frame

\* Line 66, self.mkdir(parents=False, exist_ok=True) after the parent.
MkRetry(p) ==
    /\ pc[p] = "mkretry"
    /\ LET d == directories[idx[p]]
           r == OsMkdir(fs, d) IN
       IF r.res = "ok" THEN fs' = r.fs /\ Goto(p, "exists") /\ UNCHANGED idx
       ELSE IF r.res # "ENOENT" /\ ExistOkSwallows(fs, d)
       THEN UNCHANGED <<fs, idx>> /\ Goto(p, "exists")
       ELSE Raise(p)
    /\ Frame

\* Line 70: if not gitkeep_path.exists().
GitkeepExists(p) ==
    /\ pc[p] = "exists"
    /\ IF PathExists(fs, gitkeep_path(directories[idx[p]]))
       THEN NextDirectory(p)
       ELSE Goto(p, "touch") /\ UNCHANGED idx
    /\ UNCHANGED fs
    /\ Frame

\* Line 71: gitkeep_path.touch().
GitkeepTouch(p) ==
    /\ pc[p] = "touch"
    /\ fs' = Touch(fs, gitkeep_path(directories[idx[p]]))
    /\ NextDirectory(p)
    /\ Frame

\* Line 77: if not init_file.exists().
InitExists(p) ==
    /\ pc[p] = "initexists"
    /\ Goto(p, IF InitMissing(fs) THEN "initopen" ELSE "readmeopen")
    /\ UNCHANGED <<fs, idx>>
    /\ Frame

\* Line 78: init_file.write_text(...), its open.
InitOpen(p) ==
    /\ pc[p] = "initopen"
    /\ IF OpenWFails(fs, init_file) THEN Raise(p)
       ELSE fs' = OpenW(fs, init_file) /\ Goto(p, "initwrite") /\ UNCHANGED idx
    /\ Frame

\* Line 78: init_file.write_text(...), its write and close.
InitWrite(p) ==
    /\ pc[p] = "initwrite"
    /\ fs' = WriteAll(fs, init_file, InitStubText)
    /\ Goto(p, "readmeopen")
    /\ UNCHANGED idx
    /\ Frame

\* Line 169: readme_path.write_text(readme_content), its open.
ReadmeOpen(p) ==
    /\ pc[p] = "readmeopen"
    /\ IF OpenWFails(fs, readme_path) THEN Raise(p)
       ELSE fs' = OpenW(fs, readme_path) /\ Goto(p, "readmewrite") /\ UNCHANGED idx
    /\ Frame

\* Line 169: readme_path.write_text(readme_content), its write and close;
\* lines 170-178 only print, the function returns.
ReadmeWrite(p) ==
    /\ pc[p] = "readmewrite"
    /\ fs' = WriteAll(fs, readme_path, readme_content)
    /\ Goto(p, "done")
    /\ UNCHANGED idx
    /\ Frame

\* The script is run again (line 183) once the previous run has ended.
Rerun ==
    /\ Terminated(1)
    /\ calls < MaxCalls
    /\ calls' = calls + 1
    /\ prev' = fs
    /\ prevOutcome' = pc[1]
    /\ pre' = fs
    /\ pc' = [pc EXCEPT ![1] = "mkdir"]
    /\ idx' = [idx EXCEPT ![1] = 1]
    /\ UNCHANGED fs

Step(p) ==
    \/ Mkdir(p)
    \/ MkParent(p)
    \/ MkRetry(p)
    \/ GitkeepExists(p)
    \/ GitkeepTouch(p)
    \/ InitExists(p)
    \/ InitOpen(p)
    \/ InitWrite(p)
    \/ ReadmeOpen(p)
    \/ ReadmeWrite(p)

Next == Step(1) \/ Rerun

Spec == Init /\ [][Next]_vars

NextConc == \E p \in ProcSet : Step(p)

SpecConc == InitConc /\ [][NextConc]_vars

(* ------------------------------------------------------------ properties *)

\* The steps the function takes agree with the function run to its end.
StepsAgreeWithSingle ==
    Terminated(1) => pc[1] = Single(pre).outcome /\ fs = Single(pre).fs

\* The layout as the documentation names it.
SixDirectories ==
    {"data/raw", "data/processed", "notebooks",
     "results/figures", "results/tables", "src"}

Marker(d) == d \o "/.gitkeep"

\* The calls of the loop over the directories.
InLoop(p) == pc[p] \in {"mkdir", "mkparent", "mkretry", "exists", "touch"}

\* C1: whenever an invocation returns without error, the six directories
\* exist, each holds an entry named .gitkeep, src/__init__.py exists with
\* what it held before the call or with the default stub text, and README.md
\* holds exactly the template.
C1_SuccessPostcondition ==
    pc[1] = "done" =>
        /\ \A d \in SixDirectories : fs[d] = Dir /\ fs[Marker(d)] # Absent
        /\ fs["src/__init__.py"] # Absent
        /\ fs["src/__init__.py"] \in {pre["src/__init__.py"], InitStubText}
        /\ fs["README.md"] = readme_content

C1_Witness ==
    /\ pc[1] = "done"
    /\ pre["src/__init__.py"] = Custom
    /\ pre["README.md"] = Custom

\* C2: when an invocation has succeeded, the next one in succession does not
\* fail, and when it returns the filesystem is what the first one left.
C2_Idempotent ==
    (calls >= 2 /\ prevOutcome = "done") =>
        /\ pc[1] # "error"
        /\ (pc[1] = "done" => fs = prev)

C2_Witness ==
    /\ calls = 2
    /\ prevOutcome = "done"
    /\ pc[1] = "done"
    /\ fs["src/__init__.py"] = Custom

\* C3: a src/__init__.py that exists when the invocation starts holds the
\* same content at every point of the invocation and after it.
C3_StubPreserved ==
    pre["src/__init__.py"] # Absent => fs["src/__init__.py"] = pre["src/__init__.py"]

C3_Witness ==
    /\ pc[1] = "done"
    /\ calls = 1
    /\ pre["src/__init__.py"] = Custom
    /\ fs["src/__init__.py"] = Custom

\* C4: a README.md that is a file before a successful invocation holds
\* exactly the template after it, whatever it held.
C4_ReadmeOverwritten ==
    (pc[1] = "done" /\ IsFile(pre["README.md"])) => fs["README.md"] = readme_content

C4_Witness ==
    /\ pc[1] = "done"
    /\ calls = 1
    /\ pre["README.md"] = Custom
    /\ fs["README.md"] = readme_content

\* C5: for each of the six directories, once its loop iteration is over the
\* marker is a new empty file if there was none when the invocation started,
\* and is what it was otherwise; before that iteration it is untouched.
C5_MarkerOnlyIfAbsent ==
    \A j \in 1..6 :
        LET g == Marker(directories[j]) IN
        fs[g] = IF j < idx[1] /\ pre[g] = Absent THEN Empty ELSE pre[g]

C5_Witness ==
    /\ pc[1] = "done"
    /\ calls = 1
    /\ pre["src/.gitkeep"] = Custom
    /\ fs["src/.gitkeep"] = Custom
    /\ pre["notebooks/.gitkeep"] = Absent
    /\ fs["notebooks/.gitkeep"] = Empty

\* C6, as stated: after one invocation every one of the six markers is a
\* file of zero length, whatever existed before.
C6_AsStated ==
    pc[1] = "done" => \A d \in SixDirectories : fs[Marker(d)] = Empty

\* C6, amended: after one successful invocation each of the six directories
\* holds an entry named .gitkeep, and it is a zero-length file wherever there
\* was no .gitkeep, or a zero-length one, before the invocation.
C6_MarkerPresent ==
    pc[1] = "done" =>
        \A d \in SixDirectories :
            /\ fs[Marker(d)] # Absent
            /\ pre[Marker(d)] \in {Absent, Empty} => fs[Marker(d)] = Empty

C6_Witness ==
    /\ pc[1] = "done"
    /\ calls = 1
    /\ pre["data/raw/.gitkeep"] = Custom
    /\ pre["data/processed/.gitkeep"] = Absent

\* The tree the documentation shows (section 6 of the specification).
ScaffoldedTree ==
    [n \in Nodes |->
        IF n \in SixDirectories \cup {"data", "results"} THEN Dir
        ELSE IF n \in {Marker(d) : d \in SixDirectories} THEN Empty
        ELSE IF n = "src/__init__.py" THEN InitStubText
        ELSE IF n = "README.md" THEN readme_content
        ELSE Absent]

\* C7: from an empty base directory a successful invocation leaves exactly
\* the six directories with their parents and markers, the stub and the
\* README, and nothing else.
C7_ExactlyTheLayout ==
    (pc[1] = "done" /\ pre = EmptyTree) => fs = ScaffoldedTree

C7_Witness ==
    /\ pc[1] = "done"
    /\ pre = EmptyTree
    /\ fs["notes.txt"] = Absent

\* A regular file sits where the function needs a directory.
Blocked(f) == \E n \in SixDirectories \cup {"data", "results"} : IsFile(f[n])

\* C8: when a regular file occupies one of the six directory paths or one of
\* their parents, the invocation never leaves the loop over the directories
\* other than by the error, and it can always take a step until it has.
C8_CollisionFails ==
    Blocked(pre) =>
        /\ InLoop(1) \/ pc[1] = "error"
        /\ pc[1] = "error" \/ ENABLED Step(1)

C8_Witness ==
    /\ pc[1] = "error"
    /\ calls = 1
    /\ IsFile(pre["notebooks"])
    /\ idx[1] = 3

\* C9: when the creation of the i-th directory fails, directories 1..i-1 and
\* their parents exist, their markers are as the loop leaves them, and every
\* other path, src/__init__.py and README.md among them, is as it was when
\* the invocation started.
C9_NoRollback ==
    (pc[1] = "error" /\ idx[1] <= 6) =>
        LET before == {directories[j] : j \in 1..(idx[1] - 1)} IN
        \A n \in Nodes :
            fs[n] = IF n \in before \/ (\E d \in before : n = Parent(d)) THEN Dir
                    ELSE IF (\E d \in before : n = Marker(d)) /\ pre[n] = Absent
                    THEN Empty
                    ELSE pre[n]

C9_Witness ==
    /\ pc[1] = "error"
    /\ calls = 1
    /\ idx[1] = 3
    /\ pre["data"] = Absent
    /\ fs["data/processed/.gitkeep"] = Empty
    /\ fs["README.md"] = Absent

\* C10: two invocations interleaved call by call on the same base path both
\* end as one undisturbed invocation from the same start ends (without error
\* whenever that one does), leave the filesystem that one leaves, and
\* neither is ever stuck.
C10_ConcurrentConverges ==
    /\ \A p \in ProcSet : Terminated(p) \/ ENABLED Step(p)
    /\ (\A p \in ProcSet : Terminated(p)) =>
           /\ \A p \in ProcSet : pc[p] = Single(pre).outcome
           /\ fs = Single(pre).fs

C10_Witness ==
    /\ \A p \in ProcSet : pc[p] = "done"
    /\ pre = EmptyTree
    /\ fs = ScaffoldedTree

====
